---- MODULE Spec2Model ----
(***************************************************************************)
(* State-machine model of the class template Optional<T> of optional.h.   *)
(*                                                                         *)
(* A fixed set of slots holds Optional<T> objects.  Every public member   *)
(* function is one action; the private helpers CopyFrom and MoveFrom and  *)
(* the public Reset are operators the actions call, as in the source.     *)
(* The element type T is an instrumented type: each of its constructors,  *)
(* assignments and destructors is written to the event log of the current *)
(* call, may be told to fail (throw), and its moved-from state is chosen   *)
(* by the type.                                                            *)
(***************************************************************************)
EXTENDS Integers, Sequences, FiniteSets, TLC

\* Bounds of the model.
NumC == 2
MaxVal == 2

Ids == 1..NumC
Values == 1..MaxVal

\* The valid-but-unspecified state T is left in by a move or a failed assignment.
Unspecified == 0
ElemVals == Values \cup {Unspecified}

\* nullptr; a non-null T* is the id of the Optional whose data_ it points into.
Null == 0

\* The contents of a data_ buffer: <<>> when it holds no live T, <<v>> when it
\* holds a live T of value v.
Storage == {<<>>} \cup {<<v>> : v \in ElemVals}

Forms == {"rvalue", "lvalue", "const"}

VARIABLES
    life,             \* slot -> "none" | "alive" | "dead": lifetime of the Optional
    is_initialized_,  \* slot -> BOOLEAN
    value_ptr_,       \* slot -> Null or the id of the buffer pointed to
    data_,            \* slot -> Storage
    liveCount,        \* slot -> T constructions minus T destructions in data_
    last,             \* the call made last and what it returned
    events            \* the T operations performed by the call made last

vars == <<life, is_initialized_, value_ptr_, data_, liveCount, last, events>>

----------------------------------------------------------------------------
\* The part of the state member functions work on, threaded through a call.

Cur ==
    [init |-> is_initialized_, ptr |-> value_ptr_, data |-> data_,
     cnt |-> liveCount, ev |-> <<>>, thrown |-> FALSE]

Ev(kind, at, how) == [ev |-> kind, at |-> at, how |-> how]

\* *p for a T* p: the storage contents p points at.
ElemAt(S, p) == IF p \in Ids THEN S.data[p] ELSE <<>>

\* The value read from a T that is (or is not) alive.
Read(st) == IF st = <<>> THEN Unspecified ELSE st[1]

----------------------------------------------------------------------------
\* The element type T.

\* T's constructor run by placement new on buffer `at`.  A constructor that
\* throws leaves no object behind.
TConstruct(S, at, v, how, fail) ==
    IF fail
    THEN [S EXCEPT !.ev = Append(@, Ev("throw_ctor", at, how)), !.thrown = TRUE]
    ELSE [S EXCEPT !.data[at] = <<v>>,
                   !.cnt[at] = @ + 1,
                   !.ev = Append(@, Ev("ctor", at, how))]

\* T's assignment operator on the object p points at.  An assignment that
\* throws leaves that object alive, in its old state or (residue) in T's
\* unspecified state.
TAssign(S, p, v, how, fail, residue) ==
    IF p \notin Ids \/ S.data[p] = <<>>
    THEN [S EXCEPT !.ev = Append(@, Ev("bad_write", p, how))]
    ELSE IF fail
    THEN [S EXCEPT !.data[p] = IF residue THEN <<Unspecified>> ELSE @,
                   !.ev = Append(@, Ev("throw_assign", p, how)),
                   !.thrown = TRUE]
    ELSE [S EXCEPT !.data[p] = <<v>>,
                   !.ev = Append(@, Ev("assign", p, how))]

\* T's destructor on the object p points at.
TDestroy(S, p) ==
    IF p \notin Ids
    THEN [S EXCEPT !.ev = Append(@, Ev("bad_write", p, "dtor"))]
    ELSE [S EXCEPT !.data[p] = <<>>,
                   !.cnt[p] = @ - 1,
                   !.ev = Append(@, Ev("dtor", p, "dtor"))]

\* The state of the object q points at after T's move constructor or move
\* assignment took it as operand: unchanged, or (residue) unspecified.
TMovedFrom(S, q, residue) ==
    IF q \in Ids /\ S.data[q] # <<>> /\ residue
    THEN [S EXCEPT !.data[q] = <<Unspecified>>]
    ELSE S

----------------------------------------------------------------------------
\* Statements and helpers of Optional.

\* The two statements in the wrong order: the flag is set before T's
\* constructor has run.
PlacementNewFlagFirst(S, c, v, how, fail) ==
    TConstruct([S EXCEPT !.ptr[c] = c, !.init[c] = TRUE], c, v, how, fail)

\* The first statement without the second: the flag is never set.
PlacementNewNoFlag(S, c, v, how, fail) ==
    LET S1 == TConstruct(S, c, v, how, fail)
    IN  IF S1.thrown THEN S1
        ELSE [S1 EXCEPT !.ptr[c] = c]

\* value_ptr_ = new (data_) T(...); is_initialized_ = true;
PlacementNew(S, c, v, how, fail) ==
    LET S1 == TConstruct(S, c, v, how, fail)
    IN  IF S1.thrown THEN S1
        ELSE [S1 EXCEPT !.ptr[c] = c, !.init[c] = TRUE]

\* *value_ptr_ = ...;
AssignThrough(S, c, v, how, fail, residue) ==
    TAssign(S, S.ptr[c], v, how, fail, residue)

\* Reset() that clears the flag without running T's destructor.
ResetLeak(S, c) ==
    IF ~S.init[c] THEN S
    ELSE [S EXCEPT !.ptr[c] = Null, !.init[c] = FALSE]

\* Reset() that runs T's destructor but leaves is_initialized_ set.
ResetKeepFlag(S, c) ==
    IF ~S.init[c] THEN S
    ELSE TDestroy(S, S.ptr[c])

Reset(S, c) ==
    IF ~S.init[c] THEN S
    ELSE LET S1 == TDestroy(S, S.ptr[c])
         IN  [S1 EXCEPT !.ptr[c] = Null, !.init[c] = FALSE]

\* CopyFrom that copies the members instead of the element, as a defaulted
\* copy would: value_ptr_ then points into the other Optional's buffer.
CopyFromShallow(S, c, o, fail, residue) ==
    [S EXCEPT !.ptr[c] = S.ptr[o], !.init[c] = S.init[o]]

CopyFrom(S, c, o, fail, residue) ==
    LET v == Read(ElemAt(S, S.ptr[o]))
    IN  IF ~S.init[c]
        THEN PlacementNew(S, c, v, "copy", fail)
        ELSE AssignThrough(S, c, v, "copy", fail, residue)

\* MoveFrom that replaces an existing element by destroy-and-reconstruct.
MoveFromRebuild(S, c, o, fail, residue) ==
    LET v  == Read(ElemAt(S, S.ptr[o]))
        S1 == PlacementNew(Reset(S, c), c, v, "move", fail)
    IN  TMovedFrom(S1, S.ptr[o], residue)

\* MoveFrom that empties the source after taking its value.
MoveFromClearsSource(S, c, o, fail, residue) ==
    LET v  == Read(ElemAt(S, S.ptr[o]))
        S1 == IF ~S.init[c]
              THEN PlacementNew(S, c, v, "move", fail)
              ELSE AssignThrough(S, c, v, "move", fail, residue)
    IN  IF S1.thrown \/ o = c THEN TMovedFrom(S1, S.ptr[o], residue)
        ELSE Reset(S1, o)

MoveFrom(S, c, o, fail, residue) ==
    LET v  == Read(ElemAt(S, S.ptr[o]))
        S1 == IF ~S.init[c]
              THEN PlacementNew(S, c, v, "move", fail)
              ELSE AssignThrough(S, c, v, "move", fail, residue)
    IN  TMovedFrom(S1, S.ptr[o], residue)

\* Value assignment by destroy-and-reconstruct.
AssignFromValueRebuild(S, c, v, how, fail, residue) ==
    PlacementNew(Reset(S, c), c, v, how, fail)

\* The two-branch body shared by operator=(const T&) and operator=(T&&).
AssignFromValue(S, c, v, how, fail, residue) ==
    IF ~S.init[c]
    THEN PlacementNew(S, c, v, how, fail)
    ELSE AssignThrough(S, c, v, how, fail, residue)

\* Container assignment that leaves an occupied target alone when the
\* source is empty.
AssignFromOptionalNoReset(S, c, o, how, fail, residue) ==
    IF ~S.init[o]
    THEN S
    ELSE IF how = "move"
         THEN MoveFrom(S, c, o, fail, residue)
         ELSE CopyFrom(S, c, o, fail, residue)

\* Container assignment without the test for an empty source.
AssignFromOptionalNoCheck(S, c, o, how, fail, residue) ==
    IF how = "move"
    THEN MoveFrom(S, c, o, fail, residue)
    ELSE CopyFrom(S, c, o, fail, residue)

\* Container assignment that resets the target first and then takes the
\* source as it then is.
AssignFromOptionalResetFirst(S, c, o, how, fail, residue) ==
    LET S1 == Reset(S, c)
    IN  IF ~S1.init[o]
        THEN S1
        ELSE IF how = "move"
             THEN MoveFrom(S1, c, o, fail, residue)
             ELSE CopyFrom(S1, c, o, fail, residue)

\* The body shared by operator=(const Optional&) and operator=(Optional&&).
AssignFromOptional(S, c, o, how, fail, residue) ==
    IF ~S.init[o]
    THEN IF S.init[c] THEN Reset(S, c) ELSE S
    ELSE IF how = "move"
         THEN MoveFrom(S, c, o, fail, residue)
         ELSE CopyFrom(S, c, o, fail, residue)

\* Emplace that constructs the new element first and destroys the old one after.
EmplaceBodyLate(S, c, arg, fail, junk) ==
    LET v  == IF arg[1] = "own" THEN Read(S.data[c]) ELSE arg[2]
        S1 == TConstruct(S, c, v, "args", fail)
    IN  IF S1.thrown THEN S1
        ELSE LET S2 == IF S.init[c] THEN TDestroy(S1, S.ptr[c]) ELSE S1
             IN  [S2 EXCEPT !.ptr[c] = c, !.init[c] = TRUE, !.data[c] = <<v>>]

\* Emplace: Reset(), then placement new from the forwarded arguments.  An
\* argument that refers to this Optional's own element is read when T's
\* constructor runs, that is after Reset(): the bytes of a destroyed T are
\* indeterminate (junk).
EmplaceBody(S, c, arg, fail, junk) ==
    LET S1   == Reset(S, c)
        own  == arg[1] = "own"
        dead == own /\ S1.data[c] = <<>>
        v    == IF ~own THEN arg[2]
                ELSE IF dead THEN junk ELSE S1.data[c][1]
        S2   == IF dead
                THEN [S1 EXCEPT !.ev = Append(@, Ev("read_dead", c, "args"))]
                ELSE S1
    IN  PlacementNew(S2, c, v, "args", fail)

----------------------------------------------------------------------------

Outcome(S) == IF S.thrown THEN "T_failure" ELSE "ok"

\* The record of a call: the member function, the Optional it is called on,
\* the source Optional (0: none), the overload, the operand (the contents of
\* the source's buffer, or the value or reference passed), HasValue() of the
\* target and of the source before the call, the contents of the target's
\* buffer before the call, how the call ended, what it returned, and the slot
\* the target was copy-constructed from by the call just before (0: it was not).
Call(op, tgt, src, form, arg, pre, outcome, ret) ==
    [op |-> op, tgt |-> tgt, src |-> src, form |-> form, arg |-> arg,
     pre |-> pre, outcome |-> outcome, ret |-> ret,
     srcPre |-> IF src \in Ids THEN is_initialized_[src] ELSE FALSE,
     preData |-> data_[tgt],
     copyOf |-> IF /\ last.op = "Construct_Copy" /\ last.outcome = "ok"
                   /\ last.tgt = tgt
                THEN last.src ELSE 0]

\* The state after a call that ran to S.
Commit(S) ==
    /\ is_initialized_' = S.init
    /\ value_ptr_' = S.ptr
    /\ data_' = S.data
    /\ liveCount' = S.cnt
    /\ events' = S.ev

Init ==
    /\ life = [c \in Ids |-> "none"]
    /\ is_initialized_ = [c \in Ids |-> FALSE]
    /\ value_ptr_ = [c \in Ids |-> Null]
    /\ data_ = [c \in Ids |-> <<>>]
    /\ liveCount = [c \in Ids |-> 0]
    /\ last = [op |-> "none", tgt |-> 0, src |-> 0, form |-> "-", arg |-> <<>>,
               pre |-> FALSE, outcome |-> "ok", ret |-> <<>>, srcPre |-> FALSE,
               preData |-> <<>>, copyOf |-> 0]
    /\ events = <<>>

\* Optional() = default;
Construct_Default(c) ==
    /\ life[c] = "none"
    /\ life' = [life EXCEPT ![c] = "alive"]
    /\ Commit(Cur)
    /\ last' = Call("Construct_Default", c, 0, "-", <<>>, FALSE, "ok", <<>>)

\* Optional(const T&) and Optional(T&&).  When T's constructor throws the
\* Optional never comes to exist.
Construct_Value(c, v, how, fail) ==
    /\ life[c] = "none"
    /\ LET S == PlacementNew(Cur, c, v, how, fail)
       IN  /\ Commit(S)
           /\ life' = [life EXCEPT ![c] = IF S.thrown THEN "none" ELSE "alive"]
           /\ last' = Call("Construct_Value", c, 0, how, <<v>>, FALSE,
                           Outcome(S), <<>>)

\* Optional(const Optional&)
Construct_Copy(c, o, fail) ==
    /\ life[c] = "none"
    /\ o # c
    /\ life[o] = "alive"
    /\ LET S == IF ~is_initialized_[o] THEN Cur
                ELSE CopyFrom(Cur, c, o, fail, FALSE)
       IN  /\ Commit(S)
           /\ life' = [life EXCEPT ![c] = IF S.thrown THEN "none" ELSE "alive"]
           /\ last' = Call("Construct_Copy", c, o, "copy", data_[o], FALSE,
                           Outcome(S), <<>>)

\* Optional(Optional&&)
Construct_Move(c, o, fail, residue) ==
    /\ life[c] = "none"
    /\ o # c
    /\ life[o] = "alive"
    /\ LET S == IF ~is_initialized_[o] THEN Cur
                ELSE MoveFrom(Cur, c, o, fail, residue)
       IN  /\ Commit(S)
           /\ life' = [life EXCEPT ![c] = IF S.thrown THEN "none" ELSE "alive"]
           /\ last' = Call("Construct_Move", c, o, "move", data_[o], FALSE,
                           Outcome(S), <<>>)

\* operator=(const T&) and operator=(T&&)
Assign_Value(c, v, how, fail, residue) ==
    /\ life[c] = "alive"
    /\ LET S == AssignFromValue(Cur, c, v, how, fail, residue)
       IN  /\ Commit(S)
           /\ last' = Call("Assign_Value", c, 0, how, <<v>>, is_initialized_[c],
                           Outcome(S), <<>>)
    /\ UNCHANGED life

\* operator=(const Optional&) and operator=(Optional&&); rhs may be *this.
Assign_Optional(c, o, how, fail, residue) ==
    /\ life[c] = "alive"
    /\ life[o] = "alive"
    /\ LET S == AssignFromOptional(Cur, c, o, how, fail, residue)
       IN  /\ Commit(S)
           /\ last' = Call("Assign_Optional", c, o, how, data_[o],
                           is_initialized_[c], Outcome(S), <<>>)
    /\ UNCHANGED life

\* Emplace(Values&&...)
Call_Emplace(c, arg, fail, junk) ==
    /\ life[c] = "alive"
    /\ arg[1] = "own" => is_initialized_[c]
    /\ LET S == EmplaceBody(Cur, c, arg, fail, junk)
       IN  /\ Commit(S)
           /\ last' = Call("Emplace", c, 0, arg[1], <<arg[2]>>,
                           is_initialized_[c], Outcome(S), <<>>)
    /\ UNCHANGED life

\* A destructor that does not call Reset(), as a defaulted one would.
DestructTrivial(c) ==
    /\ life[c] = "alive"
    /\ Commit(Cur)
    /\ life' = [life EXCEPT ![c] = "dead"]
    /\ last' = Call("Destruct", c, 0, "-", <<>>, is_initialized_[c], "ok", <<>>)

\* ~Optional()
Destruct(c) ==
    /\ life[c] = "alive"
    /\ Commit(Reset(Cur, c))
    /\ life' = [life EXCEPT ![c] = "dead"]
    /\ last' = Call("Destruct", c, 0, "-", <<>>, is_initialized_[c], "ok", <<>>)

\* Reset()
Call_Reset(c) ==
    /\ life[c] = "alive"
    /\ Commit(Reset(Cur, c))
    /\ last' = Call("Reset", c, 0, "-", <<>>, is_initialized_[c], "ok", <<>>)
    /\ UNCHANGED life

\* HasValue()
HasValue(c) == is_initialized_[c]

Call_HasValue(c) ==
    /\ life[c] = "alive"
    /\ Commit(Cur)
    /\ last' = Call("HasValue", c, 0, "const", <<>>, is_initialized_[c], "ok",
                    <<HasValue(c)>>)
    /\ UNCHANGED life

\* An rvalue-qualified accessor that gives the element away and empties the
\* Optional.
ConsumedEmpties(S, c, form, residue) ==
    IF form = "rvalue" THEN Reset(S, c) ELSE S

\* What the caller of an rvalue-qualified accessor does with the T&& it gets:
\* it may move the element out, which leaves the element in T's moved-from state.
Consumed(S, c, form, residue) ==
    IF form = "rvalue" THEN TMovedFrom(S, S.ptr[c], residue) ELSE S

\* operator*() &&, operator*() &, operator*() const &: no check.  On an empty
\* Optional the result is *nullptr, which is undefined: any value may be seen.
Call_Deref(c, form, residue, junk) ==
    /\ life[c] = "alive"
    /\ Commit(Consumed(Cur, c, form, residue))
    /\ last' = IF value_ptr_[c] = Null
               THEN Call("Deref", c, 0, form, <<>>, is_initialized_[c],
                         "undefined", <<junk>>)
               ELSE Call("Deref", c, 0, form, <<>>, is_initialized_[c], "ok",
                         <<Read(ElemAt(Cur, value_ptr_[c]))>>)
    /\ UNCHANGED life

\* operator->() and operator->() const: return value_ptr_.
Call_Arrow(c, form) ==
    /\ life[c] = "alive"
    /\ form \in {"lvalue", "const"}
    /\ Commit(Cur)
    /\ last' = Call("Arrow", c, 0, form, <<>>, is_initialized_[c], "ok",
                    <<value_ptr_[c]>>)
    /\ UNCHANGED life

\* Value() without the check of is_initialized_.
Call_ValueUnchecked(c, form, residue) ==
    /\ life[c] = "alive"
    /\ Commit(Consumed(Cur, c, form, residue))
    /\ last' = Call("Value", c, 0, form, <<>>, is_initialized_[c], "ok",
                    <<Read(ElemAt(Cur, value_ptr_[c]))>>)
    /\ UNCHANGED life

\* Value() &&, Value() &, Value() const &: the first two forward to the third.
Call_Value(c, form, residue) ==
    /\ life[c] = "alive"
    /\ IF ~is_initialized_[c]
       THEN /\ Commit(Cur)
            /\ last' = Call("Value", c, 0, form, <<>>, FALSE,
                            "BadOptionalAccess", <<>>)
       ELSE /\ Commit(Consumed(Cur, c, form, residue))
            /\ last' = Call("Value", c, 0, form, <<>>, TRUE, "ok",
                            <<Read(ElemAt(Cur, value_ptr_[c]))>>)
    /\ UNCHANGED life

Hows == {"copy", "move"}
EmplaceArgs == {<<"value", v>> : v \in Values} \cup {<<"own", 0>>}

\* The choices the element type and the build make during a call, drawn only
\* where the call can see them.
Fails == BOOLEAN
\* T's residue shows when an assignment into a live element throws, or when a
\* live element is the operand of a move.
Residues(c, o, how, fail) ==
    IF \/ fail /\ c \in Ids /\ is_initialized_[c]
       \/ how = "move" /\ o \in Ids /\ is_initialized_[o]
    THEN BOOLEAN ELSE {FALSE}
\* Indeterminate bytes show only when storage without a live T is read.
Junk(seen) == IF seen THEN ElemVals ELSE {Unspecified}

Next ==
    \/ \E c \in Ids : Construct_Default(c)
    \/ \E c \in Ids, v \in Values, how \in Hows, fail \in Fails :
          Construct_Value(c, v, how, fail)
    \/ \E c, o \in Ids, fail \in Fails : Construct_Copy(c, o, fail)
    \/ \E c, o \in Ids, fail \in Fails :
          \E residue \in Residues(c, o, "move", fail) :
             Construct_Move(c, o, fail, residue)
    \/ \E c \in Ids, v \in Values, how \in Hows, fail \in Fails :
          \E residue \in Residues(c, 0, "copy", fail) :
             Assign_Value(c, v, how, fail, residue)
    \/ \E c, o \in Ids, how \in Hows, fail \in Fails :
          \E residue \in Residues(c, o, how, fail) :
             Assign_Optional(c, o, how, fail, residue)
    \/ \E c \in Ids, arg \in EmplaceArgs, fail \in Fails :
          \E junk \in Junk(arg[1] = "own") :
             Call_Emplace(c, arg, fail, junk)
    \/ \E c \in Ids : Call_Reset(c)
    \/ \E c \in Ids : Call_HasValue(c)
    \/ \E c \in Ids, form \in Forms :
          \E residue \in Residues(0, c, IF form = "rvalue" THEN "move" ELSE "copy", FALSE),
             junk \in Junk(value_ptr_[c] = Null) :
             Call_Deref(c, form, residue, junk)
    \/ \E c \in Ids, form \in Forms : Call_Arrow(c, form)
    \/ \E c \in Ids, form \in Forms :
          \E residue \in Residues(0, c, IF form = "rvalue" THEN "move" ELSE "copy", FALSE) :
             Call_Value(c, form, residue)
    \/ \E c \in Ids : Destruct(c)

Spec == Init /\ [][Next]_vars

----------------------------------------------------------------------------
\* Observations of the event log of the call made last.

\* The number of events of kind `kind` on buffer `at`.
Count(kind, at) ==
    Cardinality({i \in 1..Len(events) : events[i].ev = kind /\ events[i].at = at})

Called == last.op # "none"
Tgt == last.tgt
Failed == last.outcome = "T_failure"

----------------------------------------------------------------------------
\* C1: after every completed call, failed element operations included, every
\* buffer has seen 0 or 1 more T constructions than T destructions, and a
\* living Optional has is_initialized_ set exactly when that difference is 1,
\* which is exactly when its buffer holds a live T.
C1_PresenceIffOneLiveElement ==
    \A c \in Ids :
        /\ liveCount[c] \in {0, 1}
        /\ liveCount[c] = 1 <=> data_[c] # <<>>
        /\ life[c] = "alive" => (HasValue(c) <=> liveCount[c] = 1)

\* C1 witness: T's constructor failed inside Emplace on an occupied Optional.
C1_Witness ==
    /\ last.op = "Emplace" /\ Failed /\ last.pre
    /\ ~HasValue(Tgt) /\ liveCount[Tgt] = 0

----------------------------------------------------------------------------
\* The two-state machine of the specification: the state (TRUE: Occupied) it
\* predicts after call `l`.
Predicted(l) ==
    CASE l.op \in {"Construct_Value", "Assign_Value", "Emplace"} -> TRUE
      [] l.op \in {"Construct_Copy", "Construct_Move", "Assign_Optional"} -> l.srcPre
      [] l.op \in {"Construct_Default", "Reset", "Destruct"} -> FALSE
      [] OTHER -> l.pre

----------------------------------------------------------------------------
\* The log of a call that did exactly one T operation.
One(kind, at, how) == << Ev(kind, at, how) >>

\* The log of a call that constructed into an empty target, or assigned into
\* the element of an occupied one: one operation, completed or thrown.
ConstructIfEmptyElseAssign(how) ==
    IF last.pre
    THEN events = One(IF Failed THEN "throw_assign" ELSE "assign", Tgt, how)
    ELSE events = One(IF Failed THEN "throw_ctor" ELSE "ctor", Tgt, how)

\* C3: assignment from a value (copy or move form) into an empty Optional
\* runs exactly one T constructor; into an occupied Optional it runs T's
\* assignment on the existing element, with no construction and no
\* destruction; when the element operation succeeds the Optional ends
\* occupied and holds the value assigned.
C3_AssignValue ==
    last.op = "Assign_Value" =>
        /\ ConstructIfEmptyElseAssign(last.form)
        /\ ~Failed => (HasValue(Tgt) /\ data_[Tgt] = last.arg)

\* C3 witness: a value was assigned into an occupied Optional holding another value.
C3_Witness ==
    /\ last.op = "Assign_Value" /\ last.pre /\ ~Failed
    /\ last.preData # last.arg /\ data_[Tgt] = last.arg
    /\ Count("assign", Tgt) = 1 /\ Count("ctor", Tgt) = 0

\* C4: assignment from another Optional that holds a value (copy or move
\* form) runs exactly one T constructor when the target is empty and exactly
\* one T assignment, with no construction and no destruction, when it is
\* occupied; a call that returns normally leaves the target occupied with the
\* value the source held before the call.
C4_AssignFromOccupied ==
    (last.op = "Assign_Optional" /\ last.srcPre /\ last.src # Tgt) =>
        /\ ConstructIfEmptyElseAssign(last.form)
        /\ ~Failed => (HasValue(Tgt) /\ data_[Tgt] = last.arg)

\* C4 witness: a move assignment into an occupied target took the source's
\* value and left the source's element in another state.
C4_Witness ==
    /\ last.op = "Assign_Optional" /\ last.form = "move" /\ last.src # Tgt
    /\ last.srcPre /\ last.pre /\ ~Failed
    /\ data_[Tgt] = last.arg /\ data_[last.src] # last.arg
    /\ last.preData # last.arg

\* C5: assignment from an empty Optional (copy or move form) leaves the
\* target empty; an occupied target has its element destroyed exactly once,
\* an empty target sees no T operation at all; the source stays empty.
C5_AssignFromEmpty ==
    (last.op = "Assign_Optional" /\ ~last.srcPre) =>
        /\ ~Failed
        /\ ~HasValue(Tgt) /\ data_[Tgt] = <<>>
        /\ events = IF last.pre THEN One("dtor", Tgt, "dtor") ELSE <<>>
        /\ ~HasValue(last.src) /\ data_[last.src] = <<>>

\* C5 witness: an occupied target was emptied by move assignment from an empty source.
C5_Witness ==
    /\ last.op = "Assign_Optional" /\ last.form = "move" /\ ~last.srcPre
    /\ last.pre /\ last.src # Tgt
    /\ ~HasValue(Tgt) /\ Count("dtor", Tgt) = 1

\* C6: Emplace on an occupied Optional destroys the old element exactly
\* once, before T's constructor is entered; on an empty Optional it destroys
\* nothing; T's constructor is entered once, with the forwarded arguments,
\* and no other T is constructed, copied, moved or assigned; a call that
\* returns normally leaves the Optional occupied by that one new element.
C6_Emplace ==
    last.op = "Emplace" =>
        LET made == One(IF Failed THEN "throw_ctor" ELSE "ctor", Tgt, "args")
            ops  == SelectSeq(events, LAMBDA e : e.ev # "read_dead")
        IN  /\ ops = IF last.pre THEN One("dtor", Tgt, "dtor") \o made ELSE made
            /\ ~Failed => (HasValue(Tgt) /\ data_[Tgt] # <<>> /\ liveCount[Tgt] = 1)
            /\ (~Failed /\ last.form = "value") => data_[Tgt] = last.arg

\* C6 witness: Emplace replaced the element of an occupied Optional.
C6_Witness ==
    /\ last.op = "Emplace" /\ last.pre /\ ~Failed /\ last.form = "value"
    /\ last.preData # last.arg /\ data_[Tgt] = last.arg
    /\ events = One("dtor", Tgt, "dtor") \o One("ctor", Tgt, "args")

\* C7: Value(), in each of its three forms, called on an empty Optional
\* raises BadOptionalAccess, returns nothing, runs no T operation and changes
\* nothing: the Optional is as empty after the call as before, so that the
\* next call meets the same state.
C7_ValueOnEmpty ==
    [][(last'.op = "Value" /\ ~is_initialized_[last'.tgt]) =>
          /\ last'.outcome = "BadOptionalAccess"
          /\ last'.ret = <<>>
          /\ events' = <<>>
          /\ UNCHANGED <<life, is_initialized_, value_ptr_, data_, liveCount>>
          /\ ~is_initialized_'[last'.tgt]]_vars

\* C7 witness: the consuming form of Value() raised BadOptionalAccess on an
\* Optional that had been emptied.
C7_Witness ==
    /\ last.op = "Value" /\ last.form = "rvalue"
    /\ last.outcome = "BadOptionalAccess"
    /\ ~HasValue(Tgt) /\ liveCount[Tgt] = 0

\* C8: Reset() on an occupied Optional destroys the element exactly once and
\* empties the Optional; on an empty Optional it does nothing and raises
\* nothing; and in every state Reset() twice gives the state and the
\* destructions that Reset() once gives.
C8_ResetIdempotent ==
    /\ last.op = "Reset" =>
          /\ last.outcome = "ok"
          /\ ~HasValue(Tgt) /\ data_[Tgt] = <<>> /\ liveCount[Tgt] = 0
          /\ events = IF last.pre THEN One("dtor", Tgt, "dtor") ELSE <<>>
    /\ \A c \in Ids :
          life[c] = "alive" => Reset(Reset(Cur, c), c) = Reset(Cur, c)

\* C8 witness: Reset() was called on an Optional that was already empty.
C8_Witness ==
    /\ last.op = "Reset" /\ ~last.pre /\ events = <<>> /\ ~HasValue(Tgt)

\* The calls that change an Optional without reading another one.
Mutations == {"Assign_Value", "Emplace", "Reset", "Destruct"}

\* C9: a copy constructed from an empty source is empty and no T was
\* constructed; a copy constructed from an occupied source is occupied, holds
\* a T of its own equal to the source's, and the source is as it was; and a
\* later value assignment, Emplace, Reset or destruction of one Optional
\* changes neither the presence nor the value of any other.
C9_CopyIndependent ==
    [][/\ (last'.op = "Construct_Copy" /\ life'[last'.tgt] = "alive") =>
             LET c == last'.tgt
                 o == last'.src
             IN  /\ is_initialized_'[c] = is_initialized_[o]
                 /\ data_'[c] = data_[o]
                 /\ events' = IF is_initialized_[o]
                               THEN One("ctor", c, "copy") ELSE <<>>
                 /\ is_initialized_'[c] => value_ptr_'[c] = c
                 /\ is_initialized_'[o] = is_initialized_[o]
                 /\ data_'[o] = data_[o]
       /\ last'.op \in Mutations =>
             \A d \in Ids \ {last'.tgt} :
                 /\ is_initialized_'[d] = is_initialized_[d]
                 /\ data_'[d] = data_[d]]_vars

\* C9 witness: right after its copy construction from an occupied source,
\* the copy was given another value and the source still holds its own.
C9_Witness ==
    /\ last.op \in {"Assign_Value", "Emplace"} /\ ~Failed
    /\ last.copyOf \in Ids
    /\ HasValue(last.copyOf) /\ data_[last.copyOf] = last.preData
    /\ data_[Tgt] # data_[last.copyOf]

----------------------------------------------------------------------------
\* The calls whose log holds an event of kind `kind` on the target's buffer.
Did(kind) == \E i \in 1..Len(events) : events[i].ev = kind /\ events[i].at = Tgt

\* C11: on every path that constructs a new element (value construction,
\* value or container assignment into an empty Optional, copy and move
\* construction, Emplace) is_initialized_ is set only when T's constructor
\* has completed: after a constructor that completed the flag is set over a
\* live T; after a constructor that threw the flag is clear, value_ptr_ is
\* null and the buffer holds no live T.
C11_FlagAfterConstructor ==
    /\ Did("ctor") =>
          /\ is_initialized_[Tgt] /\ data_[Tgt] # <<>> /\ liveCount[Tgt] = 1
          /\ ~Did("throw_ctor")
    /\ Did("throw_ctor") =>
          /\ Failed
          /\ ~is_initialized_[Tgt] /\ value_ptr_[Tgt] = Null
          /\ data_[Tgt] = <<>> /\ liveCount[Tgt] = 0
    /\ (Called /\ last.op \in {"Construct_Value", "Emplace"}) =>
          (Did("ctor") \/ Did("throw_ctor"))
    /\ (Called /\ ~last.pre /\ (last.op = "Assign_Value" \/ last.srcPre)) =>
          (Did("ctor") \/ Did("throw_ctor"))

\* C11 witness: T's copy constructor threw in a container assignment into an
\* empty Optional.
C11_Witness ==
    /\ last.op = "Assign_Optional" /\ last.form = "copy" /\ ~last.pre
    /\ last.srcPre /\ Failed /\ Did("throw_ctor")
    /\ ~HasValue(Tgt) /\ data_[Tgt] = <<>>

\* C12: the destructor does what Reset() does, and an Optional whose
\* lifetime has ended, or whose constructor threw, has had every T that was
\* constructed in its buffer destroyed: constructions equal destructions, the
\* buffer holds no T, and no call destroys more than one T in one buffer.
C12_DestroyedExactlyOnce ==
    /\ last.op = "Destruct" =>
          /\ life[Tgt] = "dead" /\ last.outcome = "ok"
          /\ events = IF last.pre THEN One("dtor", Tgt, "dtor") ELSE <<>>
    /\ \A c \in Ids :
          /\ life[c] # "alive" =>
                /\ liveCount[c] = 0 /\ data_[c] = <<>>
                /\ ~is_initialized_[c] /\ value_ptr_[c] = Null
          /\ Count("dtor", c) <= 1
          /\ liveCount[c] >= 0

\* C12 witness: an Optional that still held the element left by a failed T
\* assignment was destructed.
C12_Witness ==
    /\ last.op = "Destruct" /\ last.pre /\ last.preData = <<Unspecified>>
    /\ life[Tgt] = "dead" /\ liveCount[Tgt] = 0
    /\ events = One("dtor", Tgt, "dtor")

\* C13: move construction and move assignment leave the source's presence as
\* it was: an occupied source is still occupied, value_ptr_ still points at
\* the one live T in its own buffer (in the state T's move left it in), no T
\* of the source was destroyed by the call, and that T is destroyed by the
\* source's own destructor (C12); an empty source stays empty.
C13_MoveKeepsSourceOccupied ==
    (/\ last.op \in {"Construct_Move", "Assign_Optional"}
     /\ last.form = "move") =>
        LET o == last.src
        IN  /\ is_initialized_[o] = last.srcPre
            /\ last.srcPre =>
                  /\ value_ptr_[o] = o /\ liveCount[o] = 1
                  /\ data_[o] \in {last.arg, <<Unspecified>>}
                  /\ Count("dtor", o) = 0
            /\ ~last.srcPre => (data_[o] = <<>> /\ liveCount[o] = 0)

\* C13 witness: a move construction took the value of an occupied source,
\* which is still occupied and holds a moved-from T.
C13_Witness ==
    /\ last.op = "Construct_Move" /\ last.srcPre /\ ~Failed
    /\ HasValue(last.src) /\ data_[last.src] = <<Unspecified>>
    /\ last.arg # <<Unspecified>> /\ data_[Tgt] = last.arg

\* C14: a default-constructed Optional is empty and no T was constructed; an
\* Optional constructed from a value v is occupied, exactly one T was
\* constructed, and Value() called on it next returns v.
C14_Construction ==
    [][/\ last'.op = "Construct_Default" =>
             LET c == last'.tgt
             IN  /\ life'[c] = "alive" /\ ~is_initialized_'[c]
                 /\ events' = <<>> /\ liveCount'[c] = 0 /\ data_'[c] = <<>>
       /\ (last'.op = "Construct_Value" /\ last'.outcome = "ok") =>
             LET c == last'.tgt
             IN  /\ life'[c] = "alive" /\ is_initialized_'[c]
                 /\ events' = One("ctor", c, last'.form)
                 /\ liveCount'[c] = 1 /\ data_'[c] = last'.arg
       /\ (/\ last.op = "Construct_Value" /\ last.outcome = "ok"
           /\ last'.op = "Value" /\ last'.tgt = last.tgt) =>
             (last'.outcome = "ok" /\ last'.ret = last.arg)]_vars

\* C14 witness: an Optional was constructed by the move form from value 2.
C14_Witness ==
    /\ last.op = "Construct_Value" /\ last.form = "move" /\ ~Failed
    /\ HasValue(Tgt) /\ data_[Tgt] = <<2>> /\ Count("ctor", Tgt) = 1

\* The member functions that only look.
Accessors == {"HasValue", "Deref", "Arrow", "Value"}

\* C15: HasValue(), operator*, operator-> and Value(), in every form, leave
\* is_initialized_ and value_ptr_ of every Optional as they were and run no
\* T constructor, assignment or destructor; after the consuming forms the
\* Optional is still occupied by the same T, at most moved-from, which is
\* therefore destroyed by Reset() or the destructor (C8, C12).
C15_AccessorsKeepPresence ==
    [][last'.op \in Accessors =>
          /\ UNCHANGED <<life, is_initialized_, value_ptr_, liveCount>>
          /\ events' = <<>>
          /\ \A d \in Ids \ {last'.tgt} : data_'[d] = data_[d]
          /\ LET c == last'.tgt
             IN  /\ last'.form # "rvalue" => data_'[c] = data_[c]
                 /\ data_'[c] \in {data_[c], <<Unspecified>>}
                 /\ (data_'[c] = <<>>) = (data_[c] = <<>>)]_vars

\* C15 witness: the consuming form of Value() returned the value and left a
\* moved-from T in an Optional that is still occupied.
C15_Witness ==
    /\ last.op = "Value" /\ last.form = "rvalue" /\ last.outcome = "ok"
    /\ HasValue(Tgt) /\ liveCount[Tgt] = 1
    /\ data_[Tgt] = <<Unspecified>> /\ last.ret # <<Unspecified>>

\* C16 as stated: no call of Emplace reads a constructor argument from a T
\* that has already been destroyed, also when the argument refers to the
\* Optional's own element.
C16_ArgumentsReadLive ==
    \A i \in 1..Len(events) : events[i].ev # "read_dead"

\* C17: assigning an Optional to itself, in the copy or the move form, leaves
\* is_initialized_ as it was and constructs and destroys nothing: an empty
\* Optional sees no T operation, an occupied one sees exactly one T
\* assignment, of its element to itself.
C17_SelfAssignment ==
    (last.op = "Assign_Optional" /\ last.src = Tgt) =>
        /\ HasValue(Tgt) = last.pre
        /\ liveCount[Tgt] = IF last.pre THEN 1 ELSE 0
        /\ value_ptr_[Tgt] = IF last.pre THEN Tgt ELSE Null
        /\ events = IF ~last.pre THEN <<>>
                    ELSE One(IF Failed THEN "throw_assign" ELSE "assign",
                             Tgt, last.form)
        /\ (last.pre /\ last.form = "copy" /\ ~Failed) => data_[Tgt] = last.preData
        /\ last.pre => data_[Tgt] \in {last.preData, <<Unspecified>>}

\* C17 witness: an occupied Optional was move-assigned to itself.
C17_Witness ==
    /\ last.op = "Assign_Optional" /\ last.src = Tgt /\ last.form = "move"
    /\ last.pre /\ ~Failed /\ HasValue(Tgt)
    /\ events = One("assign", Tgt, "move")

\* C18: after every call value_ptr_ is null exactly when is_initialized_ is
\* false, and a value_ptr_ that is not null points into the Optional's own
\* data_, never into the buffer of another Optional.
C18_PointerIntoOwnBuffer ==
    \A c \in Ids :
        /\ (value_ptr_[c] = Null) = ~is_initialized_[c]
        /\ value_ptr_[c] \in {Null, c}

\* C18 witness: a copy assignment into an empty Optional from another,
\* occupied one left each pointing into its own buffer.
C18_Witness ==
    /\ last.op = "Assign_Optional" /\ last.form = "copy" /\ last.src # Tgt
    /\ ~last.pre /\ last.srcPre /\ ~Failed
    /\ value_ptr_[Tgt] = Tgt /\ value_ptr_[last.src] = last.src

====
